---- MODULE Spec2Model ----
(***************************************************************************)
(* Model of worldpop_stats.py: the zonal aggregator worldpop_zonal_stats   *)
(* with its three-level tile-scale retry ladder, and the dataset selection *)
(* of get_worldpop_data_from_gee / worldpop_mosaic.                        *)
(*                                                                         *)
(* Python strings are modelled as sequences of one-character strings so    *)
(* that repr() and the substring test `in` are computed, not assumed.      *)
(***************************************************************************)
EXTENDS Integers, Sequences, FiniteSets, TLC

\* ------------------------------------------------------------------------
\* Bounds of the environment
\* ------------------------------------------------------------------------

\* Largest number of arguments carried by an exception the environment raises.
MaxArgs == 1

\* ------------------------------------------------------------------------
\* Strings
\* ------------------------------------------------------------------------

\* "Output of image computation is too large"   (lines 70, 77, 84)
TooLargeText ==
    <<"O","u","t","p","u","t"," ","o","f"," ","i","m","a","g","e"," ","c","o","m","p","u","t",
      "a","t","i","o","n"," ","i","s"," ","t","o","o"," ","l","a","r","g","e">>

\* "Output of image computation is too large. (found 45 MB)"
MsgTooLargeFull ==
    <<"O","u","t","p","u","t"," ","o","f"," ","i","m","a","g","e"," ","c","o","m","p","u","t",
      "a","t","i","o","n"," ","i","s"," ","t","o","o"," ","l","a","r","g","e","."," ","(","f",
      "o","u","n","d"," ","4","5"," ","M","B",")">>

\* "output of image computation is too large"   (differs in case only)
MsgLowerCase ==
    <<"o","u","t","p","u","t"," ","o","f"," ","i","m","a","g","e"," ","c","o","m","p","u","t",
      "a","t","i","o","n"," ","i","s"," ","t","o","o"," ","l","a","r","g","e">>

\* "User's quota exceeded"
MsgQuota ==
    <<"U","s","e","r","'","s"," ","q","u","o","t","a"," ","e","x","c","e","e","d","e","d">>

\* The message texts the remote platform and the client library may produce.
Messages == {MsgTooLargeFull, MsgLowerCase, MsgQuota}

\* The exception classes the environment raises (all subclasses of Exception).
ExceptionTypes == {"EEException", "HttpError"}

RECURSIVE TuplesUpTo(_, _)
\* All tuples over S of length 0..k.
TuplesUpTo(S, k) ==
    IF k = 0 THEN {<< >>}
    ELSE LET shorter == TuplesUpTo(S, k - 1)
         IN  shorter \cup {Append(t, m) : t \in {u \in shorter : Len(u) = k - 1}, m \in S}

\* The exceptions a call into ee / geemap may raise: a class and its args tuple.
Errors == [type : ExceptionTypes, args : TuplesUpTo(Messages, MaxArgs)]

\* Python `needle in hay` on str.
Contains(needle, hay) ==
    \E h \in {hay} :
        \E i \in 0..(Len(h) - Len(needle)) :
            \A j \in 1..Len(needle) : h[i + j] = needle[j]

RECURSIVE EscapeFrom(_, _, _)
EscapeFrom(s, i, quote) ==
    IF i > Len(s) THEN << >>
    ELSE (IF s[i] = "\\" \/ s[i] = quote THEN <<"\\", s[i]>> ELSE <<s[i]>>)
            \o EscapeFrom(s, i + 1, quote)

\* The body of repr(str): backslash and the enclosing quote are escaped.
Escape(s, quote) == EscapeFrom(s, 1, quote)

\* repr() of a str: single quotes, unless the text has a single quote and no
\* double quote.
ReprStr(s) ==
    LET hasSingle == \E i \in 1..Len(s) : s[i] = "'"
        hasDouble == \E i \in 1..Len(s) : s[i] = "\""
        quote     == IF hasSingle /\ ~hasDouble THEN "\"" ELSE "'"
    IN  <<quote>> \o Escape(s, quote) \o <<quote>>

RECURSIVE ReprItems(_)
\* The reprs of the items of a tuple, joined by ", ".
ReprItems(args) ==
    IF args = << >> THEN << >>
    ELSE IF Len(args) = 1 THEN ReprStr(args[1])
    ELSE ReprStr(Head(args)) \o <<",", " ">> \o ReprItems(Tail(args))

\* repr() of a tuple of str: "()", "('a',)", "('a', 'b')".
ReprArgs(args) ==
    <<"(">> \o ReprItems(args) \o (IF Len(args) = 1 THEN <<",", ")">> ELSE <<")">>)

\* Variant: the test ignores the case of the first letter.
IsTooLarge_AnyCase(e) ==
    \/ Contains(TooLargeText, ReprArgs(e.args))
    \/ Contains(MsgLowerCase, ReprArgs(e.args))

\* "Output of image computation is too large" in repr(ex.args)
IsTooLarge(e) == Contains(TooLargeText, ReprArgs(e.args))

\* error_template.format(type(ex).__name__, ex.args)
ErrorMessage(e) ==
    [template |-> "An exception of type {0} occurred. Arguments:\n{1!r}",
     name     |-> e.type,
     args     |-> ReprArgs(e.args)]

EscalationText(n) ==
    CASE n = 1 -> "Computation is too large, trying tileScale=2"
      [] n = 2 -> "Computation is too large, trying tileScale=4"

TooBigText ==
    "The shapefile is too big for the scale. You could try splitting up the shapefile or increasing the scale parameter."

Escalation(n) == [text |-> EscalationText(n)]
TooBig == [text |-> TooBigText]

\* ------------------------------------------------------------------------
\* Dataset selection
\* ------------------------------------------------------------------------

get_worldpop_data_from_gee(c) ==
    IF c THEN [collection |-> "WorldPop/GP/100m/pop_age_sex_cons_unadj"]
         ELSE [collection |-> "WorldPop/GP/100m/pop_age_sex"]

\* Variant: the flag is not passed on, so the default (False) applies.
worldpop_mosaic_Default(c) ==
    LET pop_data == get_worldpop_data_from_gee(FALSE)
    IN  [mosaic |-> pop_data]

worldpop_mosaic(c) ==
    LET pop_data == get_worldpop_data_from_gee(c)
    IN  [mosaic |-> pop_data]

\* geemap.shp_to_ee(shapefile), when it returns
shp_to_ee(path) == [features |-> path]

\* ------------------------------------------------------------------------
\* State
\* ------------------------------------------------------------------------

VARIABLES
    shapefile, out_path, constrained, scale,  \* the arguments of the run
    pc,          \* position of worldpop_zonal_stats
    fc,          \* local fc
    worldpop,    \* local worldpop
    ex,          \* the exception bound by the innermost active except clause
    inflight,    \* the aggregation requests the remote platform is working on
    calls,       \* the aggregation requests issued so far, in order
    raised,      \* the exceptions the aggregation calls raised, in order
    printed,     \* standard output of worldpop_zonal_stats
    outfile,     \* the files written: out_file_path -> result table
    writes,      \* number of times an output file was written
    propagated,  \* the exception that left the function, if any
    setup,       \* the preparation calls made by the run, in order
    answers,     \* what the environment answered: <<request, outcome>> pairs
    entry,       \* "script" (python worldpop_stats.py) or "import" (a caller)
    main_pc,     \* position of the caller of worldpop_zonal_stats
    retval,      \* the value the call returned to its caller, if it returned
    main_printed, \* standard output of the __main__ block
    exit_status, \* exit status of the process, -1 while it runs
    invocations, \* the argument lists worldpop_zonal_stats was called with
    run,         \* 1 for the first run of the aggregator, 2 for a repetition
    prev         \* what the first run did, once a second one has started

argVars == <<shapefile, out_path, constrained, scale>>

callerVars == <<entry, main_pc, retval, main_printed, exit_status, invocations, run, prev>>

vars == <<shapefile, out_path, constrained, scale, pc, fc, worldpop, ex, inflight,
          calls, raised, printed, outfile, writes, propagated, setup, answers,
          entry, main_pc, retval, main_printed, exit_status, invocations, run, prev>>

None == [none |-> TRUE]

Shapefiles == {"districts.shp"}
OutPaths   == {"output.csv"}
Scales     == {100, 1000}

CallPc   == <<"call1", "call2", "call3">>
WaitPc   == <<"wait1", "wait2", "wait3">>
ExceptPc == <<"except1", "except2", "except3">>

\* Variant: the third call repeats tile_scale=2.
ZonalArgs_SameScale(n) ==
    CASE n = 1 -> [image |-> worldpop, fc |-> fc, out_file_path |-> out_path, scale |-> scale,
                   statistics_type |-> "SUM", bestEffort |-> TRUE]
      [] n = 2 -> [image |-> worldpop, fc |-> fc, out_file_path |-> out_path, scale |-> scale,
                   statistics_type |-> "SUM", bestEffort |-> TRUE, tile_scale |-> 2]
      [] n = 3 -> [image |-> worldpop, fc |-> fc, out_file_path |-> out_path, scale |-> scale,
                   statistics_type |-> "SUM", bestEffort |-> TRUE, tile_scale |-> 2]

\* Variant: the second call does not pass tile_scale.
ZonalArgs_NoTileScale(n) ==
    CASE n = 1 -> [image |-> worldpop, fc |-> fc, out_file_path |-> out_path, scale |-> scale,
                   statistics_type |-> "SUM", bestEffort |-> TRUE]
      [] n = 2 -> [image |-> worldpop, fc |-> fc, out_file_path |-> out_path, scale |-> scale,
                   statistics_type |-> "SUM", bestEffort |-> TRUE]
      [] n = 3 -> [image |-> worldpop, fc |-> fc, out_file_path |-> out_path, scale |-> scale,
                   statistics_type |-> "SUM", bestEffort |-> TRUE, tile_scale |-> 4]

\* Variant: the third call also coarsens the resolution.
ZonalArgs_Rescaled(n) ==
    CASE n = 1 -> [image |-> worldpop, fc |-> fc, out_file_path |-> out_path, scale |-> scale,
                   statistics_type |-> "SUM", bestEffort |-> TRUE]
      [] n = 2 -> [image |-> worldpop, fc |-> fc, out_file_path |-> out_path, scale |-> scale,
                   statistics_type |-> "SUM", bestEffort |-> TRUE, tile_scale |-> 2]
      [] n = 3 -> [image |-> worldpop, fc |-> fc, out_file_path |-> out_path,
                   scale |-> scale * 2,
                   statistics_type |-> "SUM", bestEffort |-> TRUE, tile_scale |-> 4]

\* Variant: a repeated run starts from the tile scale 2 instead of the default.
ZonalArgs_Sticky(n) ==
    CASE n = 1 /\ run = 1 ->
                  [image |-> worldpop, fc |-> fc, out_file_path |-> out_path, scale |-> scale,
                   statistics_type |-> "SUM", bestEffort |-> TRUE]
      [] n = 1 /\ run # 1 ->
                  [image |-> worldpop, fc |-> fc, out_file_path |-> out_path, scale |-> scale,
                   statistics_type |-> "SUM", bestEffort |-> TRUE, tile_scale |-> 2]
      [] n = 2 -> [image |-> worldpop, fc |-> fc, out_file_path |-> out_path, scale |-> scale,
                   statistics_type |-> "SUM", bestEffort |-> TRUE, tile_scale |-> 2]
      [] n = 3 -> [image |-> worldpop, fc |-> fc, out_file_path |-> out_path, scale |-> scale,
                   statistics_type |-> "SUM", bestEffort |-> TRUE, tile_scale |-> 4]

\* The keyword arguments of the n-th geemap.zonal_statistics call.
ZonalArgs(n) ==
    CASE n = 1 -> [image |-> worldpop, fc |-> fc, out_file_path |-> out_path, scale |-> scale,
                   statistics_type |-> "SUM", bestEffort |-> TRUE]
      [] n = 2 -> [image |-> worldpop, fc |-> fc, out_file_path |-> out_path, scale |-> scale,
                   statistics_type |-> "SUM", bestEffort |-> TRUE, tile_scale |-> 2]
      [] n = 3 -> [image |-> worldpop, fc |-> fc, out_file_path |-> out_path, scale |-> scale,
                   statistics_type |-> "SUM", bestEffort |-> TRUE, tile_scale |-> 4]

\* The result table the remote platform computes for a request: it is
\* determined by the raster, the polygons, the statistic and the resolution.
ResultTable(req) ==
    [image |-> req.image, fc |-> req.fc, statistics_type |-> req.statistics_type,
     scale |-> req.scale]

\* The outcome of a call that completed.
Completed == [ok |-> TRUE]

\* The remote platform and the file system answer a request repeated in a
\* second run as they answered it in the first.
Consistent(req, outcome) ==
    run = 1 \/ \A p \in answers : p[1] = req => p[2] = outcome

\* The arguments of the hardcoded invocation of the __main__ block.
MainArgs ==
    [shapefile   |-> "/Users/cate/git/mapaction-worldpop/data/gmb/gmb_admn_ad2_py_s1_wfp_pp_districts.shp",
     out_path    |-> "/Users/cate/git/worldpop-stats/output.shp",
     constrained |-> FALSE,
     scale       |-> 100]

\* The argument lists an importing caller may pass; out_path, constrained
\* and scale default to 'output.csv', False and 100.
CallerArgs ==
    [shapefile : Shapefiles, out_path : OutPaths, constrained : BOOLEAN, scale : Scales]

Init ==
    /\ entry \in {"script", "import"}
    /\ main_pc = (IF entry = "script" THEN "line102" ELSE "caller")
    /\ shapefile = ""
    /\ out_path = ""
    /\ constrained = FALSE
    /\ scale = 0
    /\ pc = "idle"
    /\ fc = None
    /\ worldpop = None
    /\ ex = None
    /\ inflight = {}
    /\ calls = << >>
    /\ raised = << >>
    /\ printed = << >>
    /\ outfile = << >>
    /\ writes = 0
    /\ propagated = None
    /\ setup = << >>
    /\ answers = {}
    /\ retval = None
    /\ main_printed = << >>
    /\ exit_status = -1
    /\ invocations = << >>
    /\ run = 1
    /\ prev = None

\* line 102: start_time = time.time()
MainStart ==
    /\ entry = "script"
    /\ main_pc = "line102"
    /\ main_pc' = "line103"
    /\ UNCHANGED <<argVars, pc, fc, worldpop, ex, inflight, calls, raised, printed, outfile,
                   writes, propagated, setup, answers, entry, retval, main_printed,
                   exit_status, invocations, run, prev>>

\* The call binds the parameters of lines 43-46 and enters the body.
Enter(args) ==
    /\ pc = "idle"
    /\ shapefile' = args.shapefile
    /\ out_path' = args.out_path
    /\ constrained' = args.constrained
    /\ scale' = args.scale
    /\ invocations' = Append(invocations, args)
    /\ pc' = "load"
    /\ main_pc' = "in_call"
    /\ UNCHANGED <<fc, worldpop, ex, inflight, calls, raised, printed, outfile, writes,
                   propagated, setup, answers, entry, retval, main_printed, exit_status,
                   run, prev>>

\* lines 103-106: the hardcoded invocation
MainInvoke ==
    /\ entry = "script"
    /\ main_pc = "line103"
    /\ Enter(MainArgs)

\* an importing module calls worldpop_zonal_stats
CallerInvoke ==
    /\ entry = "import"
    /\ main_pc = "caller"
    /\ \E args \in CallerArgs : Enter(args)

\* line 60: fc = geemap.shp_to_ee(shapefile), the file is readable
LoadPolygons ==
    /\ pc = "load"
    /\ Consistent([shp_to_ee |-> shapefile], Completed)
    /\ fc' = shp_to_ee(shapefile)
    /\ setup' = Append(setup, "shp_to_ee")
    /\ answers' = answers \cup {<<[shp_to_ee |-> shapefile], Completed>>}
    /\ pc' = "mosaic"
    /\ UNCHANGED <<callerVars, argVars, worldpop, ex, inflight, calls,
                   raised, printed, outfile, writes, propagated>>

\* line 60: geemap.shp_to_ee raises; the statement is outside every try block
LoadPolygonsFails ==
    /\ pc = "load"
    /\ \E e \in Errors :
          /\ Consistent([shp_to_ee |-> shapefile], e)
          /\ propagated' = e
          /\ answers' = answers \cup {<<[shp_to_ee |-> shapefile], e>>}
    /\ setup' = Append(setup, "shp_to_ee")
    /\ pc' = "RAISED"
    /\ UNCHANGED <<callerVars, argVars, fc, worldpop, ex, inflight,
                   calls, raised, printed, outfile, writes>>

\* line 61: worldpop = worldpop_mosaic(constrained=constrained)
BuildMosaic ==
    /\ pc = "mosaic"
    /\ worldpop' = worldpop_mosaic(constrained)
    /\ setup' = Append(setup, "worldpop_mosaic")
    /\ pc' = "call1"
    /\ UNCHANGED <<callerVars, argVars, fc, ex, inflight, calls, raised,
                   printed, outfile, writes, propagated, answers>>

\* lines 66, 74, 81: the n-th geemap.zonal_statistics call is issued and blocks
Issue(n) ==
    /\ pc = CallPc[n]
    /\ inflight' = inflight \cup {ZonalArgs(n)}
    /\ calls' = Append(calls, ZonalArgs(n))
    /\ pc' = WaitPc[n]
    /\ UNCHANGED <<callerVars, argVars, fc, worldpop, ex, raised, printed,
                   outfile, writes, propagated, setup, answers>>

\* Variant: the attempts follow one another instead of being nested in the
\* except clauses, so a completed attempt falls through to the next one.
ReturnOk_FallThrough(n) ==
    /\ pc = WaitPc[n]
    /\ \E req \in inflight :
          /\ Consistent(req, Completed)
          /\ inflight' = inflight \ {req}
          /\ outfile' = [p \in {req.out_file_path} |-> ResultTable(req)]
          /\ answers' = answers \cup {<<req, Completed>>}
    /\ writes' = writes + 1
    /\ pc' = (IF n < 3 THEN CallPc[n + 1] ELSE "SUCCESS")
    /\ UNCHANGED <<callerVars, argVars, fc, worldpop, ex, calls,
                   raised, printed, propagated, setup>>

\* the n-th call completes: the result table is written to out_file_path and
\* control falls out of the try statement
ReturnOk(n) ==
    /\ pc = WaitPc[n]
    /\ \E req \in inflight :
          /\ Consistent(req, Completed)
          /\ inflight' = inflight \ {req}
          /\ outfile' = [p \in {req.out_file_path} |-> ResultTable(req)]
          /\ answers' = answers \cup {<<req, Completed>>}
    /\ writes' = writes + 1
    /\ pc' = "SUCCESS"
    /\ UNCHANGED <<callerVars, argVars, fc, worldpop, ex, calls,
                   raised, printed, propagated, setup>>

\* Variant: the call is abandoned on a client-side error while the platform
\* still works on the request.
ReturnError_Abandon(n) ==
    /\ pc = WaitPc[n]
    /\ \E req \in inflight, e \in Errors :
          /\ Consistent(req, e)
          /\ ex' = e
          /\ raised' = Append(raised, e)
          /\ answers' = answers \cup {<<req, e>>}
    /\ pc' = ExceptPc[n]
    /\ UNCHANGED <<callerVars, argVars, fc, worldpop, calls, inflight,
                   printed, outfile, writes, propagated, setup>>

\* Variant: the inner except clauses bind other names, and the handlers keep
\* testing the exception of the first attempt.
ReturnError_KeepFirst(n) ==
    /\ pc = WaitPc[n]
    /\ \E req \in inflight, e \in Errors :
          /\ Consistent(req, e)
          /\ inflight' = inflight \ {req}
          /\ ex' = (IF n = 1 THEN e ELSE ex)
          /\ raised' = Append(raised, e)
          /\ answers' = answers \cup {<<req, e>>}
    /\ pc' = ExceptPc[n]
    /\ UNCHANGED <<callerVars, argVars, fc, worldpop, calls, printed,
                   outfile, writes, propagated, setup>>

\* lines 68, 76, 83: the n-th call raises and `except Exception as ex` binds it
ReturnError(n) ==
    /\ pc = WaitPc[n]
    /\ \E req \in inflight, e \in Errors :
          /\ Consistent(req, e)
          /\ inflight' = inflight \ {req}
          /\ ex' = e
          /\ raised' = Append(raised, e)
          /\ answers' = answers \cup {<<req, e>>}
    /\ pc' = ExceptPc[n]
    /\ UNCHANGED <<callerVars, argVars, fc, worldpop, calls, printed,
                   outfile, writes, propagated, setup>>

\* Variant: the retry is made whatever the exception says.
Escalate_Unconditional(n) ==
    /\ n \in {1, 2}
    /\ pc = ExceptPc[n]
    /\ printed' = Append(printed, Escalation(n))
    /\ pc' = CallPc[n + 1]
    /\ UNCHANGED <<callerVars, argVars, fc, worldpop, ex, inflight, calls,
                   raised, outfile, writes, propagated, setup, answers>>

\* Variant: the retry is made without telling the operator.
Escalate_Silent(n) ==
    /\ n \in {1, 2}
    /\ pc = ExceptPc[n]
    /\ IsTooLarge(ex)
    /\ pc' = CallPc[n + 1]
    /\ UNCHANGED <<callerVars, argVars, fc, worldpop, ex, inflight, calls, raised,
                   printed, outfile, writes, propagated, setup, answers>>

\* Variant: the polygons are loaded again before each retry.
Escalate_Reload(n) ==
    /\ n \in {1, 2}
    /\ pc = ExceptPc[n]
    /\ IsTooLarge(ex)
    /\ printed' = Append(printed, Escalation(n))
    /\ fc' = shp_to_ee(shapefile)
    /\ setup' = Append(setup, "shp_to_ee")
    /\ pc' = CallPc[n + 1]
    /\ UNCHANGED <<callerVars, argVars, worldpop, ex, inflight, calls, raised,
                   outfile, writes, propagated, answers>>

\* lines 70-72, 77-79: "too large" at attempt 1 or 2, escalate
Escalate(n) ==
    /\ n \in {1, 2}
    /\ pc = ExceptPc[n]
    /\ IsTooLarge(ex)
    /\ printed' = Append(printed, Escalation(n))
    /\ pc' = CallPc[n + 1]
    /\ UNCHANGED <<callerVars, argVars, fc, worldpop, ex, inflight, calls,
                   raised, outfile, writes, propagated, setup, answers>>

\* Variant: the third attempt is repeated while the platform says "too large".
GiveUp_Retry ==
    /\ pc = ExceptPc[3]
    /\ IsTooLarge(ex)
    /\ printed' = Append(printed, Escalation(2))
    /\ pc' = CallPc[3]
    /\ UNCHANGED <<callerVars, argVars, fc, worldpop, ex, inflight, calls,
                   raised, outfile, writes, propagated, setup, answers>>

\* Variant: the third except clause has no "too large" branch and dumps every
\* exception.
GiveUp_Dump ==
    /\ pc = ExceptPc[3]
    /\ IsTooLarge(ex)
    /\ printed' = Append(printed, ErrorMessage(ex))
    /\ pc' = "GIVE_UP"
    /\ UNCHANGED <<callerVars, argVars, fc, worldpop, ex, inflight, calls,
                   raised, outfile, writes, propagated, setup, answers>>

\* lines 84-86: "too large" at attempt 3
GiveUp ==
    /\ pc = ExceptPc[3]
    /\ IsTooLarge(ex)
    /\ printed' = Append(printed, TooBig)
    /\ pc' = "GIVE_UP"
    /\ UNCHANGED <<callerVars, argVars, fc, worldpop, ex, inflight, calls,
                   raised, outfile, writes, propagated, setup, answers>>

\* Variant: any other exception is re-raised.
Fatal_Reraise(n) ==
    /\ pc = ExceptPc[n]
    /\ ~IsTooLarge(ex)
    /\ propagated' = ex
    /\ pc' = "RAISED"
    /\ UNCHANGED <<callerVars, argVars, fc, worldpop, ex, inflight, calls,
                   raised, printed, outfile, writes, setup, answers>>

\* lines 88-90, 92-94, 96-98: any other exception is formatted and printed
Fatal(n) ==
    /\ pc = ExceptPc[n]
    /\ ~IsTooLarge(ex)
    /\ printed' = Append(printed, ErrorMessage(ex))
    /\ pc' = "FATAL"
    /\ UNCHANGED <<callerVars, argVars, fc, worldpop, ex, inflight, calls,
                   raised, outfile, writes, propagated, setup, answers>>

\* Variant: a failed run tells its caller so.
Return_Flag ==
    /\ pc \in {"SUCCESS", "GIVE_UP", "FATAL"}
    /\ main_pc = "in_call"
    /\ retval' = [value |-> IF pc = "SUCCESS" THEN "None" ELSE "False"]
    /\ main_pc' = (IF entry = "script" THEN "line107" ELSE "resumed")
    /\ UNCHANGED <<argVars, pc, fc, worldpop, ex, inflight, calls, raised, printed, outfile,
                   writes, propagated, setup, answers, entry, main_printed, exit_status,
                   invocations, run, prev>>

\* lines 67, 75, 82, 86, 90, 94, 98: the body ends without a return
\* statement, so the call evaluates to None
Return ==
    /\ pc \in {"SUCCESS", "GIVE_UP", "FATAL"}
    /\ main_pc = "in_call"
    /\ retval' = [value |-> "None"]
    /\ main_pc' = (IF entry = "script" THEN "line107" ELSE "resumed")
    /\ UNCHANGED <<argVars, pc, fc, worldpop, ex, inflight, calls, raised, printed, outfile,
                   writes, propagated, setup, answers, entry, main_printed, exit_status,
                   invocations, run, prev>>

\* the exception of line 60 reaches an importing caller
Unwind ==
    /\ pc = "RAISED"
    /\ entry = "import"
    /\ main_pc = "in_call"
    /\ main_pc' = "caught"
    /\ UNCHANGED <<argVars, pc, fc, worldpop, ex, inflight, calls, raised, printed, outfile,
                   writes, propagated, setup, answers, entry, retval, main_printed,
                   exit_status, invocations, run, prev>>

\* the exception of line 60 reaches the top of the script: traceback, status 1
MainCrash ==
    /\ pc = "RAISED"
    /\ entry = "script"
    /\ main_pc = "in_call"
    /\ main_pc' = "exited"
    /\ exit_status' = 1
    /\ UNCHANGED <<argVars, pc, fc, worldpop, ex, inflight, calls, raised, printed, outfile,
                   writes, propagated, setup, answers, entry, retval, main_printed,
                   invocations, run, prev>>

\* Variant: the script exits with status 1 when no output was written.
MainExit_Status ==
    /\ entry = "script"
    /\ main_pc = "line107"
    /\ main_printed' = Append(main_printed, [template |-> "time elapsed: {:.2f}s"])
    /\ main_pc' = "exited"
    /\ exit_status' = (IF pc = "SUCCESS" THEN 0 ELSE 1)
    /\ UNCHANGED <<argVars, pc, fc, worldpop, ex, inflight, calls, raised, printed, outfile,
                   writes, propagated, setup, answers, entry, retval, invocations, run, prev>>

\* line 107: print("time elapsed: {:.2f}s".format(...)); the module ends and
\* the interpreter exits with status 0
MainExit ==
    /\ entry = "script"
    /\ main_pc = "line107"
    /\ main_printed' = Append(main_printed, [template |-> "time elapsed: {:.2f}s"])
    /\ main_pc' = "exited"
    /\ exit_status' = 0
    /\ UNCHANGED <<argVars, pc, fc, worldpop, ex, inflight, calls, raised, printed, outfile,
                   writes, propagated, setup, answers, entry, retval, invocations, run, prev>>

Next ==
    \/ MainStart
    \/ MainInvoke
    \/ CallerInvoke
    \/ LoadPolygons
    \/ LoadPolygonsFails
    \/ BuildMosaic
    \/ \E n \in 1..3 : Issue(n)
    \/ \E n \in 1..3 : ReturnOk(n)
    \/ \E n \in 1..3 : ReturnError(n)
    \/ \E n \in 1..2 : Escalate(n)
    \/ GiveUp
    \/ \E n \in 1..3 : Fatal(n)
    \/ Return
    \/ Unwind
    \/ MainCrash
    \/ MainExit

Spec == Init /\ [][Next]_vars

\* Every remote call returns and the interpreter keeps running the function.
FairSpec == Spec /\ WF_vars(Next)

\* An importing caller runs the aggregator a second time with the arguments
\* of the first run: the locals and the per-run records start afresh, the
\* files and the answers of the environment remain.
Reinvoke ==
    /\ entry = "import"
    /\ main_pc \in {"resumed", "caught"}
    /\ run = 1
    /\ run' = 2
    /\ prev' = [calls |-> calls, pc |-> pc, outfile |-> outfile, raised |-> raised]
    /\ invocations' = Append(invocations, invocations[1])
    /\ pc' = "load"
    /\ main_pc' = "in_call"
    /\ fc' = None
    /\ worldpop' = None
    /\ ex' = None
    /\ calls' = << >>
    /\ raised' = << >>
    /\ writes' = 0
    /\ propagated' = None
    /\ setup' = << >>
    /\ retval' = None
    /\ UNCHANGED <<argVars, inflight, printed, outfile, answers, entry, main_printed,
                   exit_status>>

TwoRunNext == Next \/ Reinvoke

\* The aggregator run once or twice against a deterministic environment.
TwoRunSpec == Init /\ [][TwoRunNext]_vars

TypeOK ==
    /\ pc \in {"idle", "load", "mosaic", "RAISED", "SUCCESS", "GIVE_UP", "FATAL"}
             \cup {CallPc[n] : n \in 1..3} \cup {WaitPc[n] : n \in 1..3}
             \cup {ExceptPc[n] : n \in 1..3}
    /\ writes \in 0..3
    /\ Len(calls) \in 0..3

\* ------------------------------------------------------------------------
\* Vocabulary of the properties
\* ------------------------------------------------------------------------

Terminal == {"SUCCESS", "GIVE_UP", "FATAL"}

\* The error carries the literal text in one of its arguments.
TextHasTooLarge(e) == \E i \in 1..Len(e.args) : Contains(TooLargeText, e.args[i])

\* The tile-scale budgets of the calls issued so far; 0 stands for "not passed".
TileScaleOf(req) == IF "tile_scale" \in DOMAIN req THEN req.tile_scale ELSE 0
TileScales == [i \in 1..Len(calls) |-> TileScaleOf(calls[i])]
Ladder == <<0, 2, 4>>

IsEscalationMsg(m) ==
    m \in {[text |-> "Computation is too large, trying tileScale=2"],
           [text |-> "Computation is too large, trying tileScale=4"]}
IsErrorDump(m) == "template" \in DOMAIN m
NumEscalations == Cardinality({i \in 1..Len(printed) : IsEscalationMsg(printed[i])})
Unwritten == writes = 0 /\ outfile = << >>

\* ------------------------------------------------------------------------
\* C1: when every aggregation call raises an error containing "Output of
\* image computation is too large", exactly three calls are made, with
\* tile-scale not passed, 2 and 4 in that order, and the run ends in GIVE_UP
\* with no output written.
\* ------------------------------------------------------------------------
AllRaisedTooLarge ==
    /\ Len(raised) = Len(calls)
    /\ \A i \in 1..Len(raised) : TextHasTooLarge(raised[i])

C1_AlwaysTooLarge ==
    /\ (pc \in Terminal \cup {"RAISED"} /\ Len(calls) >= 1 /\ AllRaisedTooLarge)
          => /\ pc = "GIVE_UP"
             /\ TileScales = Ladder
             /\ Unwritten
    /\ (Len(raised) = 3 /\ AllRaisedTooLarge) => pc \in {"except3", "GIVE_UP"}
    /\ pc = "GIVE_UP" => Len(calls) = 3 /\ AllRaisedTooLarge

C1_Witness == pc = "GIVE_UP" /\ Len(calls) = 3 /\ AllRaisedTooLarge

\* ------------------------------------------------------------------------
\* C2: when the first k-1 calls raise "too large" and the k-th completes,
\* exactly k calls occur, the output is written once, by the k-th call, and
\* that call carries tile-scale 2^(k-1) (not passed for k = 1).
\* ------------------------------------------------------------------------
C2_SuccessAtK ==
    /\ pc = "SUCCESS" =>
          LET k == Len(raised) + 1
          IN  /\ k \in 1..3
              /\ Len(calls) = k
              /\ \A i \in 1..(k - 1) : TextHasTooLarge(raised[i])
              /\ writes = 1
              /\ DOMAIN outfile = {calls[k].out_file_path}
              /\ outfile[calls[k].out_file_path] = ResultTable(calls[k])
              /\ TileScaleOf(calls[k]) = (IF k = 1 THEN 0 ELSE 2 ^ (k - 1))
              /\ (k = 2 => TileScaleOf(calls[k]) = 2)
    \* a "too large" failure of attempt j < 3 is followed by attempt j + 1
    /\ \A j \in 1..2 :
          (Len(raised) = j /\ (\A i \in 1..j : TextHasTooLarge(raised[i])))
             => pc \in {ExceptPc[j], CallPc[j + 1], WaitPc[j + 1], "SUCCESS"}
    \* no write before the successful call returns
    /\ pc \in {WaitPc[n] : n \in 1..3} => writes = 0

C2_Witness == pc = "SUCCESS" /\ Len(raised) = 1 /\ TileScaleOf(calls[2]) = 2 /\ writes = 1

\* ------------------------------------------------------------------------
\* C3: an error of attempt n whose text lacks the "too large" literal sends
\* the run to FATAL at once: exactly n calls in total, no output, no
\* escalation message for it, and its type name and arguments are printed.
\* ------------------------------------------------------------------------
C3_FatalState ==
    pc = "FATAL" =>
        LET n == Len(raised)
        IN  /\ n \in 1..3
            /\ Len(calls) = n
            /\ ~TextHasTooLarge(raised[n])
            /\ Unwritten
            /\ NumEscalations = n - 1
            /\ Len(printed) = n
            /\ IsErrorDump(printed[n])
            /\ printed[n].name = raised[n].type
            /\ printed[n].args = ReprArgs(raised[n].args)

C3_FatalStep ==
    \A n \in 1..3 :
        (pc = ExceptPc[n] /\ ~TextHasTooLarge(raised[n]))
           => /\ pc' = "FATAL"
              /\ calls' = calls
              /\ inflight' = inflight
              /\ Len(printed') = Len(printed) + 1
              /\ ~IsEscalationMsg(printed'[Len(printed')])

C3_OtherErrorIsFatal == [](C3_FatalState) /\ [][C3_FatalStep]_vars

C3_Witness == pc = "FATAL" /\ Len(calls) = 2 /\ raised[2].args = <<MsgLowerCase>>

\* ------------------------------------------------------------------------
\* C4 (as stated): no error propagates out of worldpop_zonal_stats, be it
\* remote or local, e.g. an unreadable polygon file.
\* ------------------------------------------------------------------------
C4_NothingPropagates == propagated = None /\ pc # "RAISED"

\* C4 (amended): no error raised by an aggregation attempt propagates: each
\* is turned into one printed message and the function goes on to a normal
\* end.  An error can leave the function only from the polygon loading
\* of line 60, before any aggregation call and before any output.
C4_AggregationErrorsSwallowed ==
    /\ Len(raised) >= 1 => propagated = None /\ pc # "RAISED"
    /\ Len(printed) = (IF pc \in {ExceptPc[n] : n \in 1..3} THEN Len(raised) - 1
                                                              ELSE Len(raised))
    /\ pc \in {"GIVE_UP", "FATAL"} => Len(raised) = Len(calls) /\ Len(printed) = Len(raised)
    /\ (propagated # None \/ pc = "RAISED")
          => /\ propagated \in Errors
             /\ pc = "RAISED"
             /\ fc = None
             /\ calls = << >>
             /\ printed = << >>
             /\ Unwritten

C4_Witness ==
    /\ pc = "FATAL"
    /\ Len(raised) = 3
    /\ propagated = None
    /\ IsErrorDump(printed[3])

\* ------------------------------------------------------------------------
\* C5: the output file is written exactly when the run ends in SUCCESS, and
\* at most once; on every path to GIVE_UP or FATAL it is unwritten.
\* ------------------------------------------------------------------------
C5_WriteIffSuccess ==
    /\ writes <= 1
    /\ (writes = 1) <=> (pc = "SUCCESS")
    /\ (outfile # << >>) <=> (pc = "SUCCESS")
    /\ pc # "SUCCESS" => Unwritten

C5_Witness == pc = "SUCCESS" /\ writes = 1 /\ Len(calls) = 3 /\ out_path \in DOMAIN outfile

\* ------------------------------------------------------------------------
\* C6: the tile-scale budgets of the calls issued so far are a prefix of
\* (not passed, 2, 4); at most 3 calls are made; attempt n+1 is issued only
\* if attempt n raised an error containing the "too large" literal.
\* ------------------------------------------------------------------------
C6_LadderPrefix ==
    /\ Len(calls) <= 3
    /\ TileScales = SubSeq(Ladder, 1, Len(calls))
    /\ \A i \in 2..Len(calls) : TileScaleOf(calls[i]) = 2 * (IF i = 2 THEN 1 ELSE TileScaleOf(calls[i - 1]))
    /\ \A n \in 1..2 :
          Len(calls) >= n + 1 => Len(raised) >= n /\ TextHasTooLarge(raised[n])

C6_Witness == Len(calls) = 3 /\ TileScales = <<0, 2, 4>>

\* ------------------------------------------------------------------------
\* C7: across the attempts of a run only tile_scale changes: every call
\* gets the same raster, polygons, output path, scale, statistic SUM and
\* bestEffort = True as the first one.
\* ------------------------------------------------------------------------
FrameFields == {"image", "fc", "out_file_path", "scale", "statistics_type", "bestEffort"}
Frame(req) == [f \in DOMAIN req \ {"tile_scale"} |-> req[f]]

C7_OnlyTileScaleChanges ==
    \A i \in 1..Len(calls) :
        /\ DOMAIN Frame(calls[i]) = FrameFields
        /\ Frame(calls[i]) = Frame(calls[1])
        /\ calls[i].image = worldpop
        /\ calls[i].fc = [features |-> shapefile]
        /\ calls[i].out_file_path = out_path
        /\ calls[i].scale = scale
        /\ calls[i].statistics_type = "SUM"
        /\ calls[i].bestEffort = TRUE

C7_Witness == Len(calls) = 3 /\ calls[3] # calls[1] /\ scale = 1000

\* ------------------------------------------------------------------------
\* C8: provided every remote call returns, a run that reaches the first
\* attempt ends in one of SUCCESS, GIVE_UP, FATAL after at most 3 attempts,
\* and nothing (call, write, message) happens once it is there.
\* ------------------------------------------------------------------------
C8_Quiescent ==
    pc \in Terminal => (pc' = pc /\ calls' = calls /\ writes' = writes
                          /\ outfile' = outfile /\ printed' = printed)

C8_Terminates ==
    /\ (pc = "call1") ~> (pc \in Terminal)
    /\ [](pc \in Terminal => Len(calls) \in 1..3 /\ inflight = {})
    /\ [](Len(calls) <= 3)
    /\ [][C8_Quiescent]_vars

C8_Witness == pc = "GIVE_UP" /\ Len(calls) = 3 /\ inflight = {}

\* ------------------------------------------------------------------------
\* C9: the constrained dataset "WorldPop/GP/100m/pop_age_sex_cons_unadj" is
\* selected exactly when the flag is true, "WorldPop/GP/100m/pop_age_sex"
\* otherwise; the two differ; and every aggregation attempt of a run works
\* on the mosaic of the collection its flag selects.
\* ------------------------------------------------------------------------
SelectedId == IF constrained THEN "WorldPop/GP/100m/pop_age_sex_cons_unadj"
                             ELSE "WorldPop/GP/100m/pop_age_sex"

C9_DatasetSelection ==
    /\ get_worldpop_data_from_gee(TRUE).collection = "WorldPop/GP/100m/pop_age_sex_cons_unadj"
    /\ get_worldpop_data_from_gee(FALSE).collection = "WorldPop/GP/100m/pop_age_sex"
    /\ get_worldpop_data_from_gee(TRUE) # get_worldpop_data_from_gee(FALSE)
    /\ \A i \in 1..Len(calls) :
          /\ DOMAIN calls[i].image = {"mosaic"}
          /\ calls[i].image.mosaic.collection = SelectedId

C9_Witness ==
    /\ constrained
    /\ Len(calls) = 3
    /\ calls[3].image.mosaic.collection = "WorldPop/GP/100m/pop_age_sex_cons_unadj"

\* ------------------------------------------------------------------------
\* C10 (as stated): in every reachable state the number of escalation
\* messages printed equals the number of calls issued minus one (zero before
\* the first call).
\* ------------------------------------------------------------------------
C10_EscalationsAreCallsMinusOne ==
    NumEscalations = (IF Len(calls) = 0 THEN 0 ELSE Len(calls) - 1)

\* C10 (amended): the message naming tile scale 2 (resp. 4) is printed after
\* attempt 1 (resp. 2) fails "too large" and before attempt 2 (resp. 3) is
\* issued.  The number of escalation messages equals the number of calls
\* issued minus one (zero before the first call), except between the printing
\* of an escalation message and the issuing of the attempt it announces,
\* where it equals the number of calls issued.  No escalation message is
\* printed on the transition to GIVE_UP or FATAL.
C10_State ==
    /\ NumEscalations = (IF Len(calls) = 0 THEN 0
                         ELSE IF pc \in {"call2", "call3"} THEN Len(calls)
                         ELSE Len(calls) - 1)
    /\ \A n \in 1..2 :
          NumEscalations >= n
             => /\ printed[n] = [text |-> IF n = 1
                                          THEN "Computation is too large, trying tileScale=2"
                                          ELSE "Computation is too large, trying tileScale=4"]
                /\ Len(raised) >= n
                /\ TextHasTooLarge(raised[n])
    /\ \A n \in 1..2 : Len(calls) >= n + 1 => NumEscalations >= n

C10_Step ==
    /\ (pc' \in {"GIVE_UP", "FATAL"} /\ pc' # pc) => NumEscalations' = NumEscalations
    /\ \A n \in 1..2 :
          (pc = ExceptPc[n] /\ TextHasTooLarge(raised[n]))
             => /\ NumEscalations' = n
                /\ calls' = calls
                /\ pc' = CallPc[n + 1]

C10_EscalationMessages == [](C10_State) /\ [][C10_Step]_vars

C10_Witness == pc = "wait3" /\ NumEscalations = 2 /\ Len(calls) = 3

\* ------------------------------------------------------------------------
\* C11: the final message identifies the terminal state: GIVE_UP prints
\* exactly one "too big for the scale" message and no exception dump, FATAL
\* prints exactly one exception dump and no "too big" message, SUCCESS
\* prints neither.
\* ------------------------------------------------------------------------
IsTooBigMsg(m) ==
    m = [text |-> "The shapefile is too big for the scale. You could try splitting up the shapefile or increasing the scale parameter."]
NumTooBig == Cardinality({i \in 1..Len(printed) : IsTooBigMsg(printed[i])})
NumDumps == Cardinality({i \in 1..Len(printed) : IsErrorDump(printed[i])})

C11_FinalMessage ==
    /\ pc = "GIVE_UP" => /\ NumTooBig = 1
                         /\ NumDumps = 0
                         /\ IsTooBigMsg(printed[Len(printed)])
    /\ pc = "FATAL" => /\ NumDumps = 1
                       /\ NumTooBig = 0
                       /\ IsErrorDump(printed[Len(printed)])
    /\ pc = "SUCCESS" => NumTooBig = 0 /\ NumDumps = 0
    /\ pc \notin Terminal => NumTooBig = 0 /\ NumDumps = 0

C11_Witness == pc = "GIVE_UP" /\ NumTooBig = 1 /\ Len(printed) = 3

\* ------------------------------------------------------------------------
\* C12: retries are strictly sequential: at most one aggregation request is
\* in flight, and attempt n+1 is issued only after attempt n has returned
\* its error; no two attempts overlap.
\* ------------------------------------------------------------------------
C12_State ==
    /\ Cardinality(inflight) <= 1
    /\ inflight # {} => /\ pc \in {WaitPc[n] : n \in 1..3}
                        /\ inflight = {calls[Len(calls)]}
                        /\ Len(raised) = Len(calls) - 1
    /\ inflight = {} => Len(raised) \in {Len(calls), Len(calls) - 1}

C12_Step ==
    calls' # calls => /\ inflight = {}
                      /\ Len(raised) = Len(calls)
                      /\ Len(calls') = Len(calls) + 1
                      /\ inflight' = {calls'[Len(calls')]}

C12_Sequential == [](C12_State) /\ [][C12_Step]_vars

C12_Witness == pc = "wait3" /\ Cardinality(inflight) = 1 /\ Len(raised) = 2

\* ------------------------------------------------------------------------
\* C16: a FATAL at attempt n reports the type name and arguments of the
\* error raised by attempt n itself, never those of the "too large" error of
\* an earlier attempt; the GIVE_UP decision at attempt 3 is taken on the
\* third attempt's error only.
\* ------------------------------------------------------------------------
DumpOf(e) ==
    [template |-> "An exception of type {0} occurred. Arguments:\n{1!r}",
     name     |-> e.type,
     args     |-> ReprArgs(e.args)]

C16_State ==
    /\ \A n \in 1..3 : pc = ExceptPc[n] => Len(raised) = n /\ ex = raised[n]
    /\ pc = "FATAL" =>
          LET n == Len(raised)
          IN  /\ printed[Len(printed)] = DumpOf(raised[n])
              /\ \A i \in 1..(n - 1) :
                    /\ TextHasTooLarge(raised[i])
                    /\ printed[Len(printed)] # DumpOf(raised[i])
    /\ pc = "GIVE_UP" => Len(raised) = 3 /\ TextHasTooLarge(raised[3])

C16_Step ==
    /\ pc = ExceptPc[3] => ((pc' = "GIVE_UP") <=> TextHasTooLarge(raised[3]))
    /\ \A n \in 1..3 :
          (pc = ExceptPc[n] /\ pc' = "FATAL")
             => /\ ~TextHasTooLarge(raised[n])
                /\ printed' = Append(printed, DumpOf(raised[n]))

C16_OwnError == [](C16_State) /\ [][C16_Step]_vars

C16_Witness ==
    /\ pc = "FATAL"
    /\ Len(raised) = 3
    /\ raised[3].type # raised[1].type
    /\ printed[3].name = raised[3].type

\* ------------------------------------------------------------------------
\* C17: polygon loading and mosaic construction each happen once, in that
\* order, before the first aggregation call, and are not repeated between
\* retries; no aggregation call is issued and no output written unless both
\* completed, so a failed polygon load gives zero aggregation calls.
\* ------------------------------------------------------------------------
SetupPlan == <<"shp_to_ee", "worldpop_mosaic">>

C17_State ==
    /\ Len(setup) <= 2
    /\ setup = SubSeq(SetupPlan, 1, Len(setup))
    /\ (Len(calls) >= 1 \/ writes >= 1 \/ inflight # {})
          => /\ setup = SetupPlan
             /\ fc = [features |-> shapefile]
             /\ worldpop # None
             /\ propagated = None
    /\ pc = "RAISED" => /\ setup = <<"shp_to_ee">>
                        /\ calls = << >>
                        /\ inflight = {}
                        /\ Unwritten

C17_Step ==
    /\ calls' # calls => setup = SetupPlan /\ setup' = setup
    /\ calls # << >> => setup' = setup /\ fc' = fc /\ worldpop' = worldpop

C17_SetupOnce == [](C17_State) /\ [][C17_Step]_vars

C17_Witness == Len(calls) = 3 /\ setup = <<"shp_to_ee", "worldpop_mosaic">> /\ pc = "wait3"

\* ------------------------------------------------------------------------
\* C13: the caller cannot tell the outcomes apart programmatically: after
\* SUCCESS, GIVE_UP and FATAL alike the call returns None and raises
\* nothing; GIVE_UP and FATAL are handled alike (print and return); the only
\* difference the caller can observe between success and failure is whether
\* the output file was written.
\* ------------------------------------------------------------------------
Returned == main_pc \in {"line107", "resumed"} \/ (main_pc = "exited" /\ pc \in Terminal)

\* What the caller has in hand after the call.
CallerView == <<retval, propagated, outfile # << >> >>

C13_State ==
    /\ Returned => /\ pc \in Terminal
                   /\ CallerView = <<[value |-> "None"], None, pc = "SUCCESS">>
    /\ retval # None => Returned
    /\ pc \in {"GIVE_UP", "FATAL"} => /\ propagated = None
                                      /\ Unwritten
                                      /\ Len(printed) = Len(raised)

C13_Step ==
    (pc \in Terminal /\ main_pc = "in_call")
        => /\ retval' = [value |-> "None"]
           /\ main_pc' \in {"line107", "resumed"}
           /\ printed' = printed

C13_SameReturn == [](C13_State) /\ [][C13_Step]_vars

C13_Witness ==
    /\ main_pc = "resumed"
    /\ pc = "FATAL"
    /\ retval = [value |-> "None"]
    /\ outfile = << >>

\* ------------------------------------------------------------------------
\* C15: the process entry point invokes worldpop_zonal_stats exactly once,
\* with constrained = false and resolution 100; whenever the ladder ends in
\* SUCCESS, GIVE_UP or FATAL it then prints the elapsed time and completes
\* with status 0: no GIVE_UP or FATAL gives a non-zero status.
\* ------------------------------------------------------------------------
ElapsedPrinted ==
    /\ Len(main_printed) = 1
    /\ main_printed[1].template = "time elapsed: {:.2f}s"

C15_State ==
    entry = "script" =>
        /\ Len(invocations) <= 1
        /\ main_pc \in {"in_call", "line107", "exited"} => Len(invocations) = 1
        /\ \A i \in 1..Len(invocations) :
              /\ invocations[i].constrained = FALSE
              /\ invocations[i].scale = 100
              /\ constrained = FALSE
              /\ scale = 100
        /\ main_printed # << >> => pc \in Terminal /\ ElapsedPrinted
        /\ (main_pc = "exited" /\ pc \in Terminal) => exit_status = 0 /\ ElapsedPrinted
        /\ exit_status \notin {-1, 0} => pc \notin Terminal

C15_EntryPoint ==
    /\ [](C15_State)
    /\ (entry = "script" /\ pc \in Terminal) ~> (exit_status = 0 /\ ElapsedPrinted)

C15_Witness ==
    /\ entry = "script"
    /\ pc = "GIVE_UP"
    /\ exit_status = 0
    /\ Len(main_printed) = 1
    /\ Len(invocations) = 1

\* ------------------------------------------------------------------------
\* C14: running the aggregator twice with identical inputs against a
\* deterministic stub platform is idempotent: both runs issue the same calls
\* with the same tile-scales, end in the same terminal state and leave the
\* output file with identical contents.
\* ------------------------------------------------------------------------
C14_Idempotent ==
    run = 2 =>
        /\ Len(invocations) = 2
        /\ invocations[2] = invocations[1]
        /\ Len(calls) <= Len(prev.calls)
        /\ calls = SubSeq(prev.calls, 1, Len(calls))
        /\ \A i \in 1..Len(calls) : TileScaleOf(calls[i]) = TileScaleOf(prev.calls[i])
        /\ outfile = prev.outfile
        /\ pc \in Terminal \cup {"RAISED"}
              => /\ pc = prev.pc
                 /\ calls = prev.calls
                 /\ raised = prev.raised
                 /\ writes = (IF prev.outfile = << >> THEN 0 ELSE 1)

C14_Witness ==
    /\ run = 2
    /\ pc = "SUCCESS"
    /\ prev.pc = "SUCCESS"
    /\ Len(calls) = 2
    /\ writes = 1
    /\ outfile = prev.outfile
====
